---- MODULE Spec2Model ----
(***************************************************************************)
(* Model of the command execution supervisor of AI-Terminal:               *)
(* CommandExecutor in src/core/command_executor.py.                        *)
(*                                                                         *)
(* Text is modelled as a sequence of one-character strings, so that        *)
(* lower(), split('/') and strip() are computed as the code computes them. *)
(* Several threads call execute, terminate_all_processes and               *)
(* terminate_process on one executor; the children are OS processes whose  *)
(* exits, signals and reaping are the environment's steps.                 *)
(***************************************************************************)
EXTENDS Integers, Sequences, FiniteSets, TLC

\* ------------------------------------------------------------------ bounds
\* Number of threads that call into the executor.
NumThreads == 2
\* Number of Popen objects the model lets the executor create.
MaxProcs == 2

Threads == 1..NumThreads
Procs == 1..MaxProcs
\* "no process": a local that holds no Popen object.
NoProc == 0
\* "no thread": the lock is free.
NoThread == 0

\* ------------------------------------------------------------------- text
UpperCase == <<"A","B","C","D","E","F","G","H","I","J","K","L","M",
               "N","O","P","Q","R","S","T","U","V","W","X","Y","Z">>
LowerCase == <<"a","b","c","d","e","f","g","h","i","j","k","l","m",
               "n","o","p","q","r","s","t","u","v","w","x","y","z">>

\* str.lower() on one character.
LowerChar(c) ==
    IF \E i \in 1..Len(UpperCase) : UpperCase[i] = c
    THEN LowerCase[CHOOSE i \in 1..Len(UpperCase) : UpperCase[i] = c]
    ELSE c

\* str.lower()
Lower(s) == [i \in 1..Len(s) |-> LowerChar(s[i])]

\* The index of the last "/" of s, 0 when it has none.
LastSlash(s) ==
    IF \E i \in 1..Len(s) : s[i] = "/"
    THEN CHOOSE i \in 1..Len(s) : s[i] = "/" /\ \A j \in (i+1)..Len(s) : s[j] # "/"
    ELSE 0

\* command.split('/')[-1]
Basename(command) == SubSeq(command, LastSlash(command) + 1, Len(command))

Whitespace == {" ", "\t", "\n", "\r"}

\* str.strip(): drop leading and trailing whitespace.
Strip(s) ==
    IF \A i \in 1..Len(s) : s[i] \in Whitespace
    THEN <<>>
    ELSE LET first == CHOOSE i \in 1..Len(s) :
                          s[i] \notin Whitespace /\ \A j \in 1..(i-1) : s[j] \in Whitespace
             last  == CHOOSE i \in 1..Len(s) :
                          s[i] \notin Whitespace /\ \A j \in (i+1)..Len(s) : s[j] \in Whitespace
         IN  SubSeq(s, first, last)

\* ----------------------------------------------------------------- policy
allowed_commands ==
    { <<"l","s">>, <<"d","i","r">>, <<"c","a","t">>, <<"h","e","a","d">>, <<"t","a","i","l">>,
      <<"l","e","s","s">>, <<"m","o","r","e">>, <<"f","i","l","e">>, <<"f","i","n","d">>,
      <<"l","o","c","a","t","e">>, <<"w","h","i","c","h">>, <<"w","h","e","r","e","i","s">>,
      <<"t","y","p","e">>, <<"g","r","e","p">>, <<"e","g","r","e","p">>, <<"f","g","r","e","p">>,
      <<"a","w","k">>, <<"s","e","d">>, <<"s","o","r","t">>, <<"u","n","i","q">>, <<"c","u","t">>,
      <<"t","r">>, <<"w","c">>, <<"d","i","f","f">>, <<"c","m","p">>, <<"t","a","r">>,
      <<"g","z","i","p">>, <<"g","u","n","z","i","p">>, <<"z","i","p">>, <<"u","n","z","i","p">>,
      <<"7","z">>, <<"p","s">>, <<"t","o","p">>, <<"h","t","o","p">>, <<"f","r","e","e">>,
      <<"d","f">>, <<"d","u">>, <<"l","s","o","f">>, <<"n","e","t","s","t","a","t">>,
      <<"u","n","a","m","e">>, <<"w","h","o","a","m","i">>, <<"i","d">>,
      <<"g","r","o","u","p","s">>, <<"u","p","t","i","m","e">>, <<"d","a","t","e">>,
      <<"c","a","l">>, <<"e","n","v">>, <<"p","r","i","n","t","e","n","v">>,
      <<"h","i","s","t","o","r","y">>, <<"p","i","n","g">>, <<"w","g","e","t">>,
      <<"c","u","r","l">>, <<"n","s","l","o","o","k","u","p">>, <<"d","i","g">>,
      <<"h","o","s","t">>, <<"g","i","t">>, <<"p","y","t","h","o","n">>,
      <<"p","y","t","h","o","n","3">>, <<"n","o","d","e">>, <<"n","p","m">>, <<"p","i","p">>,
      <<"p","i","p","3">>, <<"j","a","v","a">>, <<"j","a","v","a","c">>, <<"g","c","c">>,
      <<"g","+","+">>, <<"m","a","k","e">>, <<"c","m","a","k","e">>, <<"v","i","m">>, <<"v","i">>,
      <<"n","a","n","o">>, <<"e","m","a","c","s">>, <<"a","p","t">>, <<"y","u","m">>,
      <<"d","n","f">>, <<"p","a","c","m","a","n">>, <<"b","r","e","w">> }

blocked_commands ==
    { <<"r","m">>, <<"r","m","d","i","r">>, <<"d","e","l">>, <<"e","r","a","s","e">>,
      <<"f","o","r","m","a","t">>, <<"m","k","f","s">>, <<"f","d","i","s","k">>,
      <<"p","a","r","t","e","d">>, <<"g","p","a","r","t","e","d">>, <<"s","u","d","o">>,
      <<"s","u">>, <<"l","o","g","i","n">>, <<"l","o","g","o","u","t">>, <<"e","x","i","t">>,
      <<"s","h","u","t","d","o","w","n">>, <<"r","e","b","o","o","t">>, <<"h","a","l","t">>,
      <<"p","o","w","e","r","o","f","f">>, <<"i","n","i","t">>,
      <<"s","y","s","t","e","m","c","t","l">>, <<"s","e","r","v","i","c","e">>, <<"s","s","h">>,
      <<"s","c","p">>, <<"r","s","y","n","c">>, <<"f","t","p">>, <<"s","f","t","p">>,
      <<"t","e","l","n","e","t">>, <<"k","i","l","l">>, <<"k","i","l","l","a","l","l">>,
      <<"p","k","i","l","l">>, <<"n","o","h","u","p">>, <<"s","c","r","e","e","n">>,
      <<"t","m","u","x">>, <<"c","h","m","o","d">>, <<"c","h","o","w","n">>,
      <<"c","h","g","r","p">>, <<"u","m","a","s","k">>, <<"m","o","u","n","t">>,
      <<"u","m","o","u","n","t">>, <<"s","w","a","p","o","n">>, <<"s","w","a","p","o","f","f">>,
      <<"d","d">>, <<"s","h","r","e","d">>, <<"w","i","p","e">> }

shell_builtins ==
    { <<"c","d">>, <<"p","w","d">>, <<"e","c","h","o">>, <<"h","e","l","p">>,
      <<"c","l","e","a","r">>, <<"h","i","s","t","o","r","y">> }

\* The outcome of _is_command_allowed: its return value and what it logs.
Verdict(ret, warning) == [ret |-> ret, log |-> warning]

\* A faulty variant of the policy check: a blocked name is let through.
is_command_allowed_blocked_passes(command) ==
    LET base_command == Basename(command) IN
    IF base_command \in blocked_commands THEN Verdict(TRUE, <<>>)
    ELSE IF base_command \in allowed_commands THEN Verdict(TRUE, <<>>)
    ELSE IF base_command \in shell_builtins THEN Verdict(FALSE, <<>>)
    ELSE Verdict(FALSE, <<"Unknown command blocked">>)

\* A faulty variant of the policy check: the builtin test comes before the
\* allow-set test.
is_command_allowed_builtins_first(command) ==
    LET base_command == Basename(command) IN
    IF base_command \in blocked_commands THEN Verdict(FALSE, <<>>)
    ELSE IF base_command \in shell_builtins THEN Verdict(FALSE, <<>>)
    ELSE IF base_command \in allowed_commands THEN Verdict(TRUE, <<>>)
    ELSE Verdict(FALSE, <<"Unknown command blocked">>)

\* CommandExecutor._is_command_allowed
is_command_allowed(command) ==
    LET base_command == Basename(command) IN
    IF base_command \in blocked_commands THEN Verdict(FALSE, <<>>)
    ELSE IF base_command \in allowed_commands THEN Verdict(TRUE, <<>>)
    ELSE IF base_command \in shell_builtins THEN Verdict(FALSE, <<>>)
    ELSE Verdict(FALSE, <<"Unknown command blocked">>)

\* ------------------------------------------------------------- constants
\* self.default_timeout
default_timeout == 30
\* self.command_timeouts
command_timeouts ==
    (<<"p","i","n","g">> :> 10) @@ (<<"w","g","e","t">> :> 60) @@
    (<<"c","u","r","l">> :> 60) @@ (<<"f","i","n","d">> :> 60) @@
    (<<"g","r","e","p">> :> 30) @@ (<<"t","a","r">> :> 120) @@
    (<<"z","i","p">> :> 120) @@ (<<"u","n","z","i","p">> :> 120)

\* self.command_timeouts.get(command_name, self.default_timeout)
TimeoutFor(command_name) ==
    IF command_name \in DOMAIN command_timeouts
    THEN command_timeouts[command_name]
    ELSE default_timeout

\* max_length in _process_output
max_length == 10000
\* '\n... [output truncated]'
TruncationMarker ==
    <<"\n",".",".","."," ","[","o","u","t","p","u","t"," ",
      "t","r","u","n","c","a","t","e","d","]">>

\* The return codes execute puts in its result.
RC_FAILURE == 1
RC_TIMEOUT == 124
RC_NOT_EXECUTABLE == 126
RC_NOT_FOUND == 127
\* Popen.returncode of a child ended by SIGTERM, by SIGKILL, by taskkill /F.
RC_SIGTERM == -15
RC_SIGKILL == -9
RC_TASKKILL == 1

\* A faulty variant of the sanitizer: the whitespace stays.
process_output_unstripped(output) ==
    IF output = <<>> THEN <<>>
    ELSE IF Len(output) > max_length
         THEN SubSeq(output, 1, max_length) \o TruncationMarker
         ELSE output

\* A faulty variant of the sanitizer: the length is not capped.
process_output_uncapped(output) ==
    IF output = <<>> THEN <<>> ELSE Strip(output)

\* A faulty variant of the sanitizer: the marker counts toward the cap.
process_output_within_cap(output) ==
    IF output = <<>> THEN <<>>
    ELSE LET stripped == Strip(output) IN
         IF Len(stripped) > max_length
         THEN SubSeq(stripped, 1, max_length - Len(TruncationMarker)) \o TruncationMarker
         ELSE stripped

\* A faulty variant of the sanitizer: the marker is appended to every text.
process_output_always_marked(output) ==
    IF output = <<>> THEN <<>>
    ELSE LET stripped == Strip(output) IN
         (IF Len(stripped) > max_length
          THEN SubSeq(stripped, 1, max_length)
          ELSE stripped) \o TruncationMarker

\* CommandExecutor._process_output
process_output(output) ==
    IF output = <<>> THEN <<>>
    ELSE LET stripped == Strip(output) IN
         IF Len(stripped) > max_length
         THEN SubSeq(stripped, 1, max_length) \o TruncationMarker
         ELSE stripped

\* ----------------------------------------------------------------- inputs
\* The command argument of execute, given as what shlex.split makes of it:
\* quoting_ok = FALSE is a string shlex.split rejects with ValueError.
Command(quoting_ok, words) == [quoting_ok |-> quoting_ok, words |-> words]

\* The working_directory argument of execute: None, or a path that is a
\* directory, is a regular file, or does not exist.
WorkingDirectories == {"None", "dir", "file", "missing"}

\* os.path.exists(working_directory)
path_exists(working_directory) == working_directory \in {"dir", "file"}

\* What the file system holds for the program Popen is to start.
Executables == {"present", "missing", "not_executable", "os_error"}

\* How a child ends by itself: its exit code, what it wrote, and whether
\* what it wrote decodes as text (text=True makes communicate decode it).
Ends(returncode, stdout, stderr, decodable) ==
    [returncode |-> returncode, stdout |-> stdout, stderr |-> stderr,
     decodable |-> decodable]
\* Nothing was captured: the value of a local not yet set.
NoEnding == Ends(0, <<>>, <<>>, TRUE)
ExitsClean == Ends(0, <<" ","o","k","\n">>, <<>>, TRUE)
ExitsFailing == Ends(1, <<>>, <<"e","\n">>, TRUE)
ExitsWith124 == Ends(124, <<>>, <<>>, TRUE)
WritesBinary == Ends(0, <<>>, <<>>, FALSE)
\* A text one character longer than the sanitizer lets through.
LongText == [i \in 1..(max_length + 1) |-> "x"]
WritesLong == Ends(0, LongText, <<>>, TRUE)
ChildOutcomes == {ExitsClean, ExitsFailing, ExitsWith124, WritesBinary}

\* How a child ends when a signal ends it.
Killed(returncode) == Ends(returncode, <<>>, <<>>, TRUE)

\* One call of execute with what it meets: the command, the working
\* directory, what the file system holds for the program, and how the
\* program, once started, ends by itself.
Request(command, working_directory, executable, child) ==
    [command |-> command, working_directory |-> working_directory,
     executable |-> executable, child |-> child]

Run(name, working_directory, executable, child) ==
    Request(Command(TRUE, << name >>), working_directory, executable, child)

\* The calls of execute made one after the other (SpecCalls).
Requests ==
    { Request(Command(FALSE, <<>>), "None", "present", ExitsClean),
      Request(Command(TRUE, <<>>), "None", "present", ExitsClean) }
    \cup { Run(<<"l","s">>, "None", "present", child) : child \in ChildOutcomes }
    \cup { Run(<<"l","s">>, "None", executable, ExitsClean) : executable \in Executables }
    \cup { Run(<<"/","b","/","L","S">>, "dir", executable, ExitsClean) :
              executable \in {"present", "missing"} }
    \cup { Run(<<"p","i","n","g">>, "file", executable, ExitsFailing) :
              executable \in {"present", "missing"} }
    \cup { Run(<<"i","d">>, "missing", "present", ExitsClean) }
    \cup { Run(<<"/","b","/","P","i","n","g">>, "dir", "present", ExitsClean) }
    \cup { Run(name, "None", executable, ExitsClean) :
              name \in { <<"r","m">>, <<"/","b","/","R","m">>, <<"c","d">>, <<"z","z">> },
              executable \in {"present", "missing"} }

\* The calls of execute whose child writes little, much, or what is not
\* text (SpecOutput).
OutputRequests ==
    { Run(<<"l","s">>, "None", "present", child) :
         child \in {ExitsClean, ExitsFailing, WritesBinary, WritesLong} }

\* The calls of execute made by threads that run side by side (Spec).
ConcurrentRequests ==
    { Run(<<"l","s">>, "None", "present", ExitsClean),
      Run(<<"l","s">>, "None", "present", ExitsFailing),
      Run(<<"l","s">>, "None", "present", WritesBinary),
      Run(<<"r","m">>, "None", "present", ExitsClean) }

\* ------------------------------------------------------------------ state
VARIABLES
    platform,           \* platform.system()
    running_processes,  \* self.running_processes: id(process) -> process
    process_lock,       \* self.process_lock: the thread that holds it
    os_procs,           \* the children, by Popen object
    nspawned,           \* how many Popen objects were created
    pc,                 \* per thread, where it is
    frame,              \* per thread, the locals of its call
    returned,           \* the call that returned in the last step, with its value
    emitted,            \* what the last step wrote to the logger
    policy_in,          \* the name a policy check is asked about
    policy_out,         \* what the policy check answered
    text_in,            \* the text the sanitizer is given
    text_out,           \* what the sanitizer made of it, once and twice
    main_pc             \* where main of the application is

vars == << platform, running_processes, process_lock, os_procs, nspawned,
           pc, frame, returned, emitted, policy_in, policy_out, text_in, text_out,
           main_pc >>

policy_vars == << policy_in, policy_out >>

sanitizer_vars == << text_in, text_out >>

main_vars == << main_pc >>

\* A child: state is none (not started), running, zombie (ended, not yet
\* waited for) or reaped; own_group says whether it leads a group of its own.
\* ending is how its program ends by itself and, once it has ended, how it did.
Unborn == [state |-> "none", own_group |-> FALSE, ending |-> NoEnding]

\* What a call returns. kind says which: a result dict of execute, True or
\* False of terminate_process, None of terminate_all_processes.
NoResult == [kind |-> "pending", keys |-> {}, output |-> <<>>,
             error |-> [text |-> "", arg |-> <<>>, n |-> 0], returncode |-> 0]
\* {'output': ..., 'error': ..., 'returncode': ...}
ResultDict(output, error, returncode) ==
    [kind |-> "dict", keys |-> {"output", "error", "returncode"},
     output |-> output, error |-> error, returncode |-> returncode]
Returned(kind) == [NoResult EXCEPT !.kind = kind]

\* An error string: a fixed text with a formatted argument.
Message(text, arg) == [text |-> text, arg |-> arg, n |-> 0]
MessageN(text, n) == [text |-> text, arg |-> <<>>, n |-> n]
\* The stderr of the child as the result's error.
Captured(text) == [text |-> "", arg |-> text, n |-> 0]

\* The locals of a call. captured is what communicate returned and completed
\* says that it did return; caller is the call _kill_process_group was made
\* from, target the process it is to kill and sent the signals it has sent;
\* snapshot is the list terminate_all_processes loops over, todo what is
\* left of it and attempted the entries its loop body was run for, in order;
\* popped is what the pop of _run_command gave and aimed what the signals
\* sent were addressed to.
EmptyFrame ==
    [op |-> "none", request |-> Request(Command(TRUE, <<>>), "None", "present", NoEnding),
     timeout |-> 0, cwd |-> "None", process |-> NoProc, captured |-> NoEnding,
     completed |-> FALSE, todo |-> {}, target |-> NoProc, caller |-> "none",
     sent |-> << >>, snapshot |-> {}, attempted |-> << >>, popped |-> "nothing",
     aimed |-> {}]

\* No call returned in the last step.
NoReturn == [thread |-> NoThread, frame |-> EmptyFrame, value |-> NoResult]

\* main is in socketio.run: the application serves requests.
Serving == [at |-> "serving", by |-> "none", status |-> 0]

\* The sanitizer was not applied yet.
NotSanitized == [times |-> 0, once |-> << >>, twice |-> << >>]

\* No policy check was made yet.
NotAsked == [asked |-> FALSE, ret |-> FALSE, log |-> << >>]

InitExecutor ==
    /\ platform \in {"Linux", "Windows"}
    /\ running_processes = [id \in {} |-> NoProc]
    /\ process_lock = NoThread
    /\ os_procs = [p \in Procs |-> Unborn]
    /\ nspawned = 0
    /\ frame = [t \in Threads |-> EmptyFrame]
    /\ returned = NoReturn
    /\ emitted = << >>
    /\ main_pc = Serving

\* Every thread may call into the executor.
Init ==
    /\ InitExecutor
    /\ pc = [t \in Threads |-> "idle"]
    /\ policy_in = << >>
    /\ policy_out = NotAsked
    /\ text_in = << >>
    /\ text_out = NotSanitized

\* ---------------------------------------------------------------- helpers
\* Thread t returns value from its call, with f its locals at that moment.
Return(t, f, value) ==
    /\ pc' = [pc EXCEPT ![t] = "idle"]
    /\ frame' = [frame EXCEPT ![t] = EmptyFrame]
    /\ returned' = [thread |-> t, frame |-> f, value |-> value]

\* Thread t goes on to position next with locals f; no call returns.
Goto(t, next, f) ==
    /\ pc' = [pc EXCEPT ![t] = next]
    /\ frame' = [frame EXCEPT ![t] = f]
    /\ returned' = NoReturn

\* A faulty variant of the lock: a thread enters while another holds it.
with_process_lock_unguarded(t) == TRUE

\* "with self.process_lock:": thread t can enter when no thread holds the lock.
with_process_lock(t) == process_lock = NoThread

\* self.running_processes[process_id] = process
DictSet(d, key, value) ==
    [k \in (DOMAIN d) \cup {key} |-> IF k = key THEN value ELSE d[k]]

\* self.running_processes.pop(process_id, None)
DictPop(d, key) == [k \in (DOMAIN d) \ {key} |-> d[k]]

\* What self.running_processes.pop(process_id, None) gives back: the entry,
\* or the default None for a key that is not there.
DictPopValue(d, key) == IF key \in DOMAIN d THEN "entry" ELSE "None"

\* A faulty variant of the pop: without the default, a key that is not there
\* raises KeyError.
DictPopRaisesIfAbsent(d, key) == key \notin DOMAIN d

\* self.running_processes.pop(process_id, None) raises: with the default
\* None it never does.
DictPopRaises(d, key) == FALSE

\* shlex.split(command): the words, or ValueError for unbalanced quoting.
shlex_split(command) ==
    IF command.quoting_ok
    THEN [raises |-> "None", cmd_parts |-> command.words]
    ELSE [raises |-> "ValueError", cmd_parts |-> << >>]

\* A faulty variant of the security check of execute: the check is skipped.
SecurityCheckSkipped(command_name) == TRUE

\* execute: "if not self._is_command_allowed(command_name)" lets the call go on.
SecurityCheckPasses(command_name) == is_command_allowed(command_name).ret

\* execute: the working directory the child is started in.
ResolveCwd(working_directory) ==
    IF working_directory # "None" /\ path_exists(working_directory)
    THEN working_directory
    ELSE "getcwd"

\* A faulty variant of the Popen arguments: no preexec_fn.
preexec_setsid_never(system) == FALSE

\* Popen(..., preexec_fn=None if platform.system() == "Windows" else
\* os.setsid): whether the child makes a session and a group of its own.
preexec_setsid(system) == system # "Windows"

\* subprocess.Popen(cmd_parts, cwd=cwd, ...): "started", or the exception it
\* raises. The chdir to cwd comes before the exec of the program.
Popen(cwd, executable) ==
    IF cwd = "file" THEN "NotADirectoryError"
    ELSE IF executable = "missing" THEN "FileNotFoundError"
    ELSE IF executable = "not_executable" THEN "PermissionError"
    ELSE IF executable = "os_error" THEN "OSError"
    ELSE "started"

\* A faulty variant of the except clauses: not-found and permission-denied swapped.
run_command_except_swapped(exception, cmd_parts) ==
    IF exception = "FileNotFoundError"
    THEN ResultDict(<<>>, Message("Command not found: ", cmd_parts[1]), RC_NOT_EXECUTABLE)
    ELSE IF exception = "PermissionError"
    THEN ResultDict(<<>>, Message("Permission denied: ", cmd_parts[1]), RC_NOT_FOUND)
    ELSE ResultDict(<<>>, Message("Execution failed: ", <<>>), RC_FAILURE)

\* A faulty variant of the except clauses: FileNotFoundError has no clause of its own.
run_command_except_no_not_found(exception, cmd_parts) ==
    IF exception = "PermissionError"
    THEN ResultDict(<<>>, Message("Permission denied: ", cmd_parts[1]), RC_NOT_EXECUTABLE)
    ELSE ResultDict(<<>>, Message("Execution failed: ", <<>>), RC_FAILURE)

\* _run_command: the except clauses of its outer try.
run_command_except(exception, cmd_parts) ==
    IF exception = "FileNotFoundError"
    THEN ResultDict(<<>>, Message("Command not found: ", cmd_parts[1]), RC_NOT_FOUND)
    ELSE IF exception = "PermissionError"
    THEN ResultDict(<<>>, Message("Permission denied: ", cmd_parts[1]), RC_NOT_EXECUTABLE)
    ELSE ResultDict(<<>>, Message("Execution failed: ", <<>>), RC_FAILURE)

\* A faulty variant of the except clause of execute: the exception goes on
\* to the caller.
execute_except_reraises(exception) == Returned("raised")

\* execute: "except Exception as e" of its try, which logs the exception and
\* returns 'Execution error: ...' with returncode 1.
execute_except(exception) ==
    ResultDict(<<>>, Message("Execution error: ", <<>>), RC_FAILURE)

\* _run_command: the result of the TimeoutExpired clause.
timeout_result(timeout) ==
    ResultDict(<<>>, MessageN("Command timed out after {timeout} seconds", timeout),
               RC_TIMEOUT)

\* ---------------------------------------------------------------- execute
\* A caller invokes execute(command, working_directory) on thread t.
CallExecute(t, request) ==
    /\ pc[t] = "idle"
    /\ Goto(t, "execute", [EmptyFrame EXCEPT !.op = "execute", !.request = request])
    /\ emitted' = << >>
    /\ UNCHANGED << platform, running_processes, process_lock, os_procs, nspawned,
                    policy_vars, sanitizer_vars, main_vars >>

\* execute up to and including the Popen of _run_command.
Execute(t) ==
    /\ pc[t] = "execute"
    /\ LET request == frame[t].request
           parsed == shlex_split(request.command)
           cmd_parts == parsed.cmd_parts
       IN
       IF parsed.raises # "None"
       THEN /\ Return(t, frame[t], execute_except(parsed.raises))
            /\ emitted' = <<"Error executing command">>
            /\ UNCHANGED << os_procs, nspawned >>
       ELSE IF cmd_parts = << >>
       THEN /\ Return(t, frame[t],
                      ResultDict(<<>>, Message("Empty command", <<>>), RC_FAILURE))
            /\ emitted' = << >>
            /\ UNCHANGED << os_procs, nspawned >>
       ELSE
       LET command_name == Lower(cmd_parts[1]) IN
       IF ~SecurityCheckPasses(command_name)
       THEN /\ Return(t, frame[t],
                      ResultDict(<<>>, Message("Command not allowed: ", command_name),
                                 RC_FAILURE))
            /\ emitted' = is_command_allowed(command_name).log
            /\ UNCHANGED << os_procs, nspawned >>
       ELSE
       LET timeout == TimeoutFor(command_name)
           cwd == ResolveCwd(request.working_directory)
           started == Popen(cwd, request.executable)
           process == nspawned + 1
           locals == [frame[t] EXCEPT !.timeout = timeout, !.cwd = cwd]
       IN
       IF started # "started"
       THEN /\ Return(t, locals, run_command_except(started, cmd_parts))
            /\ emitted' = is_command_allowed(command_name).log
            /\ UNCHANGED << os_procs, nspawned >>
       ELSE /\ nspawned < MaxProcs
            /\ nspawned' = process
            /\ os_procs' = [os_procs EXCEPT ![process] =
                               [state |-> "running",
                                own_group |-> preexec_setsid(platform),
                                ending |-> request.child]]
            /\ Goto(t, "register", [locals EXCEPT !.process = process])
            /\ emitted' = is_command_allowed(command_name).log
    /\ UNCHANGED << platform, running_processes, process_lock, policy_vars, sanitizer_vars, main_vars >>

\* _run_command: "with self.process_lock: self.running_processes[process_id] = process"
Register(t) ==
    /\ pc[t] = "register"
    /\ with_process_lock(t)
    /\ running_processes' = DictSet(running_processes, frame[t].process, frame[t].process)
    /\ Goto(t, "communicate", frame[t])
    /\ emitted' = << >>
    /\ UNCHANGED << platform, process_lock, os_procs, nspawned, policy_vars, sanitizer_vars, main_vars >>

\* The child of a Popen object ends by itself.
ChildExit(p) ==
    /\ os_procs[p].state = "running"
    /\ os_procs' = [os_procs EXCEPT ![p].state = "zombie"]
    /\ returned' = NoReturn
    /\ emitted' = << >>
    /\ UNCHANGED << platform, running_processes, process_lock, nspawned, pc, frame,
                    policy_vars, sanitizer_vars, main_vars >>

\* process.communicate(timeout=timeout) returns: the child has ended, its
\* output was read and decoded, and the child is reaped.
CommunicateReturn(t) ==
    /\ pc[t] = "communicate"
    /\ os_procs[frame[t].process].state = "zombie"
    /\ os_procs[frame[t].process].ending.decodable
    /\ os_procs' = [os_procs EXCEPT ![frame[t].process] =
                       [@ EXCEPT !.state = "reaped", !.ending = NoEnding]]
    /\ Goto(t, "unregister",
            [frame[t] EXCEPT !.captured = os_procs[frame[t].process].ending,
                             !.completed = TRUE])
    /\ emitted' = << >>
    /\ UNCHANGED << platform, running_processes, process_lock, nspawned, policy_vars, sanitizer_vars, main_vars >>

\* process.communicate raises something other than TimeoutExpired (the output
\* is not text in the locale's encoding: UnicodeDecodeError). The inner try
\* has no clause for it: the outer "except Exception" returns.
CommunicateRaise(t) ==
    /\ pc[t] = "communicate"
    /\ os_procs[frame[t].process].state = "zombie"
    /\ ~os_procs[frame[t].process].ending.decodable
    /\ os_procs' = [os_procs EXCEPT ![frame[t].process] =
                       [@ EXCEPT !.state = "reaped", !.ending = NoEnding]]
    /\ Return(t, frame[t],
              run_command_except("UnicodeDecodeError", frame[t].request.command.words))
    /\ emitted' = << >>
    /\ UNCHANGED << platform, running_processes, process_lock, nspawned, policy_vars, sanitizer_vars, main_vars >>

\* _run_command: the clean up and the result of the natural completion.
Unregister(t) ==
    /\ pc[t] = "unregister"
    /\ with_process_lock(t)
    /\ IF DictPopRaises(running_processes, frame[t].process)
       THEN /\ UNCHANGED running_processes
            /\ Return(t, frame[t],
                      run_command_except("KeyError", frame[t].request.command.words))
       ELSE /\ running_processes' = DictPop(running_processes, frame[t].process)
            /\ Return(t, [frame[t] EXCEPT !.popped =
                                  DictPopValue(running_processes, frame[t].process)],
                      ResultDict(process_output(frame[t].captured.stdout),
                                 Captured(process_output(frame[t].captured.stderr)),
                                 frame[t].captured.returncode))
    /\ emitted' = << >>
    /\ UNCHANGED << platform, process_lock, os_procs, nspawned, policy_vars, sanitizer_vars, main_vars >>

\* process.communicate raises TimeoutExpired: the deadline passed and the
\* child has not ended, or a descendant still holds its pipes.
CommunicateTimeout(t) ==
    /\ pc[t] = "communicate"
    /\ os_procs[frame[t].process].state \in {"running", "zombie"}
    /\ Goto(t, "kill", [frame[t] EXCEPT !.target = frame[t].process, !.caller = "run",
                                        !.sent = << >>])
    /\ emitted' = << >>
    /\ UNCHANGED << platform, running_processes, process_lock, os_procs, nspawned,
                    policy_vars, sanitizer_vars, main_vars >>

\* _run_command: the end of the TimeoutExpired clause.
TimeoutPop(t) ==
    /\ pc[t] = "timeout_pop"
    /\ with_process_lock(t)
    /\ IF DictPopRaises(running_processes, frame[t].process)
       THEN /\ UNCHANGED running_processes
            /\ Return(t, frame[t],
                      run_command_except("KeyError", frame[t].request.command.words))
       ELSE /\ running_processes' = DictPop(running_processes, frame[t].process)
            /\ Return(t, [frame[t] EXCEPT !.popped =
                                  DictPopValue(running_processes, frame[t].process)],
                      timeout_result(frame[t].timeout))
    /\ emitted' = << >>
    /\ UNCHANGED << platform, process_lock, os_procs, nspawned, policy_vars, sanitizer_vars, main_vars >>

\* ---------------------------------------------------- _kill_process_group
\* What sending a signal meets: it is sent, or the caller may not signal
\* the child (EPERM: the child runs with other credentials), or the child
\* was reaped and the system has given its pid to another process (reused).
SignalOutcomes == {"sent", "EPERM", "reused"}

\* process.pid names the child until the child is reaped; afterwards the
\* same number can name another process. On Windows the Popen object keeps
\* its handle of the process, which keeps the pid from being given out.
PidCanBeReused(system, reaped, outcome) ==
    outcome = "reused" => (reaped /\ system # "Windows")

\* The child p after a signal was sent to its group: it ends if it runs and
\* dies of the signal.
Signalled(p, dies, returncode) ==
    IF os_procs[p].state = "running" /\ dies
    THEN [os_procs EXCEPT ![p] = [@ EXCEPT !.state = "zombie",
                                           !.ending = Killed(returncode)]]
    ELSE os_procs

\* What _kill_process_group addresses for child p: on Windows taskkill /T
\* /PID, the child and the processes it started; elsewhere
\* os.killpg(os.getpgid(process.pid), ...), the group the child is in, which
\* is its own if it made one and the group of the executor if it did not;
\* once the child is reaped, the group of whatever process has its pid.
KillTarget(p) ==
    IF platform = "Windows" THEN "tree of the child"
    ELSE IF os_procs[p].state = "reaped" THEN "group of a stranger"
    ELSE IF os_procs[p].own_group THEN "group of the child"
    ELSE "group of the executor"

\* _kill_process_group has returned to the call that made it, whose locals
\* are f: _run_command goes on to its pop, terminate_process pops, releases
\* the lock and returns True, terminate_all_processes goes on with its loop.
KillReturns(t, f) ==
    IF f.caller = "run"
    THEN /\ Goto(t, "timeout_pop", f)
         /\ UNCHANGED << running_processes, process_lock >>
    ELSE IF f.caller = "one"
    THEN /\ running_processes' = DictPop(running_processes, f.target)
         /\ process_lock' = NoThread
         /\ Return(t, f, Returned("True"))
    ELSE /\ Goto(t, "terminate_all_loop", f)
         /\ UNCHANGED << running_processes, process_lock >>

\* A faulty variant of the handling of a failed kill: the exception is not caught in
\* _kill_process_group, so the outer "except Exception" of _run_command ends
\* the call before its pop.
KillFailurePropagates(t, f) ==
    IF f.caller = "run"
    THEN /\ Return(t, f, run_command_except("PermissionError", f.request.command.words))
         /\ UNCHANGED << running_processes, process_lock >>
    ELSE KillReturns(t, f)

\* A faulty variant of the handling of a failed kill: in
\* terminate_all_processes the failure ends the loop.
KillFailureEndsLoop(t, f) ==
    IF f.caller = "all"
    THEN /\ Goto(t, "terminate_all_loop", [f EXCEPT !.todo = {}])
         /\ UNCHANGED << running_processes, process_lock >>
    ELSE KillReturns(t, f)

\* A faulty variant of the handling of a failed kill: the exception reaches
\* the "except Exception" of terminate_process, which returns False with the
\* entry still in the table.
KillFailureReturnsFalse(t, f) ==
    IF f.caller = "one"
    THEN /\ process_lock' = NoThread
         /\ Return(t, f, Returned("False"))
         /\ UNCHANGED running_processes
    ELSE KillReturns(t, f)

\* _kill_process_group: "except Exception as e: logger.error(...)": a failed
\* kill is logged and the function returns as after a kill that worked.
KillFailureLogged(t, f) == KillReturns(t, f)

\* A faulty variant of the first signal: SIGKILL from the start.
FirstSignalForceful(system, reaped, outcome) ==
    IF system = "Windows"
    THEN IF outcome = "sent" /\ ~reaped THEN "TASKKILL" ELSE "nothing"
    ELSE IF outcome = "EPERM" \/ (reaped /\ outcome # "reused") THEN "raise"
    ELSE "SIGKILL"

\* _kill_process_group: what its first step sends. On Windows taskkill /F /T,
\* whose failure changes nothing; elsewhere SIGTERM to the group, unless
\* os.getpgid (the child is reaped and no process has its pid:
\* ProcessLookupError) or os.killpg raises.
FirstSignal(system, reaped, outcome) ==
    IF system = "Windows"
    THEN IF outcome = "sent" /\ ~reaped THEN "TASKKILL" ELSE "nothing"
    ELSE IF outcome = "EPERM" \/ (reaped /\ outcome # "reused") THEN "raise"
    ELSE "SIGTERM"

\* _kill_process_group up to its sleep. On Windows the function is over
\* after taskkill; elsewhere an exception is logged and the function is
\* over, and after SIGTERM comes time.sleep(0.5).
KillGroup(t, outcome, dies) ==
    /\ pc[t] = "kill"
    /\ PidCanBeReused(platform, os_procs[frame[t].target].state = "reaped", outcome)
    /\ LET p == frame[t].target
           sig == FirstSignal(platform, os_procs[p].state = "reaped", outcome)
       IN
       IF sig = "TASKKILL"
       THEN /\ os_procs' = Signalled(p, TRUE, RC_TASKKILL)
            /\ KillReturns(t, [frame[t] EXCEPT !.sent = Append(@, sig),
                                       !.aimed = @ \cup {KillTarget(p)}])
            /\ emitted' = << >>
       ELSE IF sig = "nothing"
       THEN /\ KillReturns(t, frame[t])
            /\ emitted' = << >>
            /\ UNCHANGED os_procs
       ELSE IF sig = "raise"
       THEN /\ KillFailureLogged(t, frame[t])
            /\ emitted' = <<"Error killing process">>
            /\ UNCHANGED os_procs
       ELSE /\ os_procs' = Signalled(p, IF sig = "SIGTERM" THEN dies ELSE TRUE,
                                     IF sig = "SIGTERM" THEN RC_SIGTERM ELSE RC_SIGKILL)
            /\ Goto(t, "kill_sleep", [frame[t] EXCEPT !.sent = Append(@, sig),
                                       !.aimed = @ \cup {KillTarget(p)}])
            /\ emitted' = << >>
            /\ UNCHANGED << running_processes, process_lock >>
    /\ UNCHANGED << platform, nspawned, policy_vars, sanitizer_vars, main_vars >>

\* _kill_process_group after time.sleep(0.5): SIGKILL to the group, whether
\* or not the child still runs. ProcessLookupError (the child is reaped and
\* no process has its pid) is passed over, any other exception is logged.
KillGroupForce(t, outcome) ==
    /\ pc[t] = "kill_sleep"
    /\ PidCanBeReused(platform, os_procs[frame[t].target].state = "reaped", outcome)
    /\ LET p == frame[t].target IN
       IF os_procs[p].state = "reaped" /\ outcome # "reused"
       THEN /\ KillReturns(t, frame[t])
            /\ emitted' = << >>
            /\ UNCHANGED os_procs
       ELSE IF outcome = "EPERM"
       THEN /\ KillFailureLogged(t, frame[t])
            /\ emitted' = <<"Error killing process">>
            /\ UNCHANGED os_procs
       ELSE /\ os_procs' = Signalled(p, TRUE, RC_SIGKILL)
            /\ KillReturns(t, [frame[t] EXCEPT !.sent = Append(@, "SIGKILL"),
                                       !.aimed = @ \cup {KillTarget(p)}])
            /\ emitted' = << >>
    /\ UNCHANGED << platform, nspawned, policy_vars, sanitizer_vars, main_vars >>

\* ------------------------------------------------ terminate_all_processes
\* terminate_all_processes takes the lock and the snapshot
\* list(self.running_processes.items()).
TerminateAllBegin(t) ==
    /\ pc[t] = "idle"
    /\ with_process_lock(t)
    /\ process_lock' = t
    /\ Goto(t, "terminate_all_loop",
            [EmptyFrame EXCEPT !.op = "terminate_all_processes",
                               !.todo = DOMAIN running_processes,
                               !.snapshot = DOMAIN running_processes,
                               !.caller = "all"])
    /\ emitted' = << >>
    /\ UNCHANGED << platform, running_processes, os_procs, nspawned, policy_vars, sanitizer_vars, main_vars >>

\* The loop of terminate_all_processes takes the next entry of the snapshot,
\* in the order of the dict, which is the order of registration.
TerminateAllNext(t) ==
    /\ pc[t] = "terminate_all_loop"
    /\ frame[t].todo # {}
    /\ \E process_id \in frame[t].todo :
          Goto(t, "kill", [frame[t] EXCEPT !.todo = @ \ {process_id},
                                           !.attempted = Append(@, process_id),
                                           !.target = running_processes[process_id],
                                           !.sent = << >>])
    /\ emitted' = << >>
    /\ UNCHANGED << platform, running_processes, process_lock, os_procs, nspawned,
                    policy_vars, sanitizer_vars, main_vars >>

\* The loop is over: self.running_processes.clear(), and the lock is released.
TerminateAllClear(t) ==
    /\ pc[t] = "terminate_all_loop"
    /\ frame[t].todo = {}
    /\ running_processes' = [id \in {} |-> NoProc]
    /\ process_lock' = NoThread
    /\ Return(t, frame[t], Returned("None"))
    /\ emitted' = << >>
    /\ UNCHANGED << platform, os_procs, nspawned, policy_vars, sanitizer_vars, main_vars >>

\* ------------------------------------------------------ terminate_process
\* A faulty variant of the lookup of terminate_process: every id is taken
\* for a tracked one.
RegistryHasAnything(process_id) == TRUE

\* terminate_process: "process = self.running_processes.get(process_id)" and
\* "if process:".
RegistryHas(process_id) == process_id \in DOMAIN running_processes

\* terminate_process(process_id): under the lock, an absent id returns False;
\* a present one is killed, then popped.
TerminateProcess(t, process_id) ==
    /\ pc[t] = "idle"
    /\ with_process_lock(t)
    /\ LET locals == [EmptyFrame EXCEPT !.op = "terminate_process",
                                        !.target = process_id, !.caller = "one"]
       IN IF RegistryHas(process_id)
          THEN /\ process_lock' = t
               /\ Goto(t, "kill", locals)
          ELSE /\ Return(t, locals, Returned("False"))
               /\ UNCHANGED process_lock
    /\ emitted' = << >>
    /\ UNCHANGED << platform, running_processes, os_procs, nspawned, policy_vars, sanitizer_vars, main_vars >>

\* -------------------------------------------------- get_running_processes
\* get_running_processes(): under the lock, the keys of the table.
GetRunningProcesses(t) ==
    /\ pc[t] = "idle"
    /\ with_process_lock(t)
    /\ Return(t, [EmptyFrame EXCEPT !.op = "get_running_processes",
                                    !.snapshot = DOMAIN running_processes],
              Returned("list"))
    /\ emitted' = << >>
    /\ UNCHANGED << platform, running_processes, process_lock, os_procs, nspawned,
                    policy_vars, sanitizer_vars, main_vars >>

\* ------------------------------------------------------------ environment
\* A thread in a call still holds the Popen object p, or the table does.
Referenced(p) ==
    \/ \E id \in DOMAIN running_processes : running_processes[id] = p
    \/ \E t \in Threads :
          frame[t].process = p \/ frame[t].target = p \/ p \in frame[t].todo

\* A Popen object nobody holds is collected; subprocess then reaps its
\* ended child (Popen.__del__ and subprocess._cleanup).
Collect(p) ==
    /\ os_procs[p].state = "zombie"
    /\ ~Referenced(p)
    /\ os_procs' = [os_procs EXCEPT ![p] = [@ EXCEPT !.state = "reaped",
                                                     !.ending = NoEnding]]
    /\ returned' = NoReturn
    /\ emitted' = << >>
    /\ UNCHANGED << platform, running_processes, process_lock, nspawned, pc, frame,
                    policy_vars, sanitizer_vars, main_vars >>

\* ------------------------------------------------------------------- spec
\* The steps of the executor and of its children, but for the calls of execute.
Steps ==
    \/ \E t \in Threads : Execute(t)
    \/ \E t \in Threads : Register(t)
    \/ \E p \in Procs : ChildExit(p)
    \/ \E t \in Threads : CommunicateReturn(t)
    \/ \E t \in Threads : CommunicateRaise(t)
    \/ \E t \in Threads : Unregister(t)
    \/ \E t \in Threads : CommunicateTimeout(t)
    \/ \E t \in Threads : TimeoutPop(t)
    \/ \E t \in Threads, outcome \in SignalOutcomes, dies \in BOOLEAN :
          KillGroup(t, outcome, dies)
    \/ \E t \in Threads, outcome \in SignalOutcomes : KillGroupForce(t, outcome)
    \/ \E t \in Threads : TerminateAllBegin(t)
    \/ \E t \in Threads : TerminateAllNext(t)
    \/ \E t \in Threads : TerminateAllClear(t)
    \/ \E t \in Threads, process_id \in Procs : TerminateProcess(t, process_id)
    \/ \E t \in Threads : GetRunningProcesses(t)
    \/ \E p \in Procs : Collect(p)

\* Threads side by side.
Next ==
    \/ \E t \in Threads, request \in ConcurrentRequests : CallExecute(t, request)
    \/ Steps

Spec == Init /\ [][Next]_vars

\* One thread makes its calls one after the other; the others make none.
InitCalls ==
    /\ InitExecutor
    /\ pc = [t \in Threads |-> IF t = 1 THEN "idle" ELSE "absent"]
    /\ policy_in = << >>
    /\ policy_out = NotAsked
    /\ text_in = << >>
    /\ text_out = NotSanitized

NextCalls ==
    \/ \E t \in Threads, request \in Requests : CallExecute(t, request)
    \/ Steps

SpecCalls == InitCalls /\ [][NextCalls]_vars

\* One thread makes calls whose children differ in what they write.
NextOutput ==
    \/ \E t \in Threads, request \in OutputRequests : CallExecute(t, request)
    \/ Steps

SpecOutput == InitCalls /\ [][NextOutput]_vars

\* The policy check by itself, on every name of the three sets and on names
\* of none, bare, capitalised and with a directory in front.
UpperChar(c) ==
    IF \E i \in 1..Len(LowerCase) : LowerCase[i] = c
    THEN UpperCase[CHOOSE i \in 1..Len(LowerCase) : LowerCase[i] = c]
    ELSE c
Capitalize(s) == IF s = << >> THEN s ELSE << UpperChar(s[1]) >> \o Tail(s)
PolicyNames ==
    blocked_commands \cup allowed_commands \cup shell_builtins
        \cup { <<"z","z">>, <<"r","m","x">>, << >> }
PolicyInputs ==
    UNION { { name, Capitalize(name), <<"/">> \o name,
              <<"/","u","/">> \o Capitalize(name), name \o <<"/">> } :
            name \in PolicyNames }

InitPolicy ==
    /\ InitExecutor
    /\ pc = [t \in Threads |-> "absent"]
    /\ policy_in \in PolicyInputs
    /\ policy_out = NotAsked
    /\ text_in = << >>
    /\ text_out = NotSanitized

\* execute: command_name = cmd_parts[0].lower(), then the security check.
PolicyCheck ==
    /\ ~policy_out.asked
    /\ LET verdict == is_command_allowed(Lower(policy_in))
       IN policy_out' = [asked |-> TRUE, ret |-> verdict.ret, log |-> verdict.log]
    /\ UNCHANGED << platform, running_processes, process_lock, os_procs, nspawned,
                    pc, frame, returned, emitted, policy_in, sanitizer_vars, main_vars >>

SpecPolicy == InitPolicy /\ [][PolicyCheck]_vars


\* The sanitizer by itself, on texts around the cap, with and without
\* whitespace around them and at the cut.
Filled(n) == [i \in 1..n |-> "x"]
TextBodies ==
    { Filled(n) : n \in {0, 1, 2, max_length - 1, max_length, max_length + 1,
                         max_length + 1000} }
        \cup { [i \in 1..(max_length + 2) |-> IF i = max_length THEN " " ELSE "x"],
               <<"a"," ","b">>,
               Filled(max_length) \o TruncationMarker }
Paddings == { << >>, <<" ">>, <<"\n","\t">>, <<" ","\r">> }
Texts == { left \o body \o right :
              left \in Paddings, body \in TextBodies, right \in Paddings }

InitSanitize ==
    /\ InitExecutor
    /\ pc = [t \in Threads |-> "absent"]
    /\ policy_in = << >>
    /\ policy_out = NotAsked
    /\ text_in \in Texts
    /\ text_out = NotSanitized

\* _run_command: output = self._process_output(stdout)
Sanitize ==
    /\ text_out.times = 0
    /\ text_out' = [times |-> 1, once |-> process_output(text_in), twice |-> << >>]
    /\ UNCHANGED << platform, running_processes, process_lock, os_procs, nspawned,
                    pc, frame, returned, emitted, policy_vars, text_in, main_vars >>

\* The sanitizer applied to a text it has returned.
SanitizeAgain ==
    /\ text_out.times = 1
    /\ text_out' = [text_out EXCEPT !.times = 2, !.twice = process_output(text_out.once)]
    /\ UNCHANGED << platform, running_processes, process_lock, os_procs, nspawned,
                    pc, frame, returned, emitted, policy_vars, text_in, main_vars >>

NextSanitize == Sanitize \/ SanitizeAgain

SpecSanitize == InitSanitize /\ [][NextSanitize]_vars

\* The application by itself: main serves requests, which call execute on
\* the executor of its Terminal, until it exits.
ExitPaths ==
    { [by |-> "server stopped", status |-> 0],
      [by |-> "server failed", status |-> 1],
      [by |-> "KeyboardInterrupt", status |-> 0] }

\* main leaves socketio.run and the process exits: socketio.run returns
\* (return 0), raises (return 1) or is interrupted (sys.exit(0)). None of
\* the three touches the executor.
MainExit(path) ==
    /\ main_pc.at = "serving"
    /\ main_pc' = [at |-> "exited", by |-> path.by, status |-> path.status]
    /\ returned' = NoReturn
    /\ emitted' = IF path.by = "server failed"
                  THEN <<"Failed to start the web server">>
                  ELSE << >>
    /\ UNCHANGED << platform, running_processes, process_lock, os_procs, nspawned,
                    pc, frame, policy_vars, sanitizer_vars >>

\* While main serves, the executor works; after the exit only the children
\* go on.
NextMain ==
    \/ /\ main_pc.at = "serving"
       /\ \/ \E t \in Threads, request \in ConcurrentRequests : CallExecute(t, request)
          \/ Steps
    \/ \E path \in ExitPaths : MainExit(path)
    \/ /\ main_pc.at = "exited"
       /\ \E p \in Procs : ChildExit(p)

SpecMain == InitCalls /\ [][NextMain]_vars
\* ----------------------------------------------------------------- claims
\* What the claims say of a call that returned in the last step.
ExecuteReturned == returned.thread # NoThread /\ returned.frame.op = "execute"

\* The call's command has a program name: shlex.split gave at least one word.
HasName(request) == request.command.quoting_ok /\ request.command.words # << >>

\* The program name of a request, as the caller gave it.
NameOf(request) == request.command.words[1]

\* The policy check classifies the program name of the request as Allow.
ClassifiedAllow(request) ==
    HasName(request) /\ is_command_allowed(Lower(NameOf(request))).ret

\* The three keys of the result dict of execute, and no other.
ResultKeys == {"output", "error", "returncode"}

\* C1: for every program name in the deny-set, however it is written (with a
\* directory in front, with capitals), the policy check reached from execute
\* answers Deny.
C1_DenySetIsDenied ==
    (policy_out.asked /\ Basename(Lower(policy_in)) \in blocked_commands)
        => policy_out.ret = FALSE

\* C1, witness: a name of the deny-set given with a directory and a capital
\* was checked and denied.
C1_Witness ==
    /\ policy_out.asked
    /\ policy_in = <<"/","u","/","S","u","d","o">>
    /\ policy_out.ret = FALSE

\* C2: a step of execute creates a process only for a request whose program
\* name the policy check classifies as Allow; for any other name the step
\* creates none, leaves the running-process table as it was and returns the
\* error result {'output': '', 'error': 'Command not allowed: ...',
\* 'returncode': 1}.
C2_SpawnOnlyWhenAllowed ==
    [][ /\ \A p \in Procs :
              (os_procs[p].state = "none" /\ os_procs'[p].state # "none")
              => \E t \in Threads :
                    /\ pc[t] = "execute"
                    /\ frame'[t].process = p
                    /\ ClassifiedAllow(frame[t].request)
        /\ \A t \in Threads :
              (/\ pc[t] = "execute"
               /\ pc'[t] # "execute"
               /\ HasName(frame[t].request)
               /\ ~ClassifiedAllow(frame[t].request))
              => /\ nspawned' = nspawned
                 /\ os_procs' = os_procs
                 /\ running_processes' = running_processes
                 /\ returned'.thread = t
                 /\ returned'.frame.process = NoProc
                 /\ returned'.value =
                       ResultDict(<<>>, Message("Command not allowed: ",
                                                Lower(NameOf(frame[t].request))),
                                  RC_FAILURE)
      ]_vars

\* C2, witness: after a process was created for an allowed name, a call for
\* a built-in name has returned the error result.
C2_Witness ==
    /\ nspawned > 0
    /\ ExecuteReturned
    /\ HasName(returned.frame.request)
    /\ NameOf(returned.frame.request) = <<"c","d">>
    /\ returned.value.error.text = "Command not allowed: "
    /\ returned.value.returncode = RC_FAILURE

\* C3: a child whose handle is not in the running-process table does not
\* run any more: it has ended or was reaped. (Stated of every child that
\* was started; the code does not keep it.)
C3_AbsentHandleMeansEnded ==
    \A p \in Procs :
        (os_procs[p].state # "none" /\ p \notin DOMAIN running_processes)
            => os_procs[p].state \in {"zombie", "reaped"}

\* C4: a call of _run_command that has put its handle into the table has
\* taken it out when it returns, on every way out. (The code does not: the
\* way out through "except Exception" keeps the entry.)
C4_RunUnregistersBeforeReturn ==
    (ExecuteReturned /\ returned.frame.process # NoProc)
        => returned.frame.process \notin DOMAIN running_processes

\* C5: when terminate_all_processes completes, no child that still runs is
\* missing from the table it clears. (The code does not keep it: a child is
\* started before its handle is registered.)
C5_TerminateAllSeesEveryLiveChild ==
    [][ \A t \in Threads :
            (pc[t] = "terminate_all_loop" /\ pc'[t] = "idle")
            => \A p \in Procs :
                  os_procs[p].state = "running" => p \in DOMAIN running_processes
      ]_vars

\* The signals of one call of _kill_process_group, by where the call is.
ForcefulSignals == {"SIGKILL", "TASKKILL"}
KillShape(position, sent) ==
    IF platform = "Windows"
    THEN /\ position # "kill_sleep"
         /\ position = "kill" => sent = << >>
         /\ sent \in { << >>, <<"TASKKILL">> }
    ELSE /\ position = "kill" => sent = << >>
         /\ position = "kill_sleep" => sent = <<"SIGTERM">>
         /\ sent \in { << >>, <<"SIGTERM">>, <<"SIGTERM", "SIGKILL">> }

TimeoutReturned == ExecuteReturned /\ returned.frame.caller = "run"

\* C7 as amended: a call whose communicate timed out returns the result dict
\* with returncode 124 and the error 'Command timed out after <timeout>
\* seconds' (a dict of three keys, none of them a timed-out flag), and its
\* handle is out of the table, whether or not the signals could be sent.
C7_TimeoutResult ==
    TimeoutReturned
    => /\ returned.value.kind = "dict"
       /\ returned.value.keys = ResultKeys
       /\ returned.value.returncode = RC_TIMEOUT
       /\ returned.value.output = << >>
       /\ returned.value.error =
             MessageN("Command timed out after {timeout} seconds",
                      returned.frame.timeout)
       /\ returned.frame.process \notin DOMAIN running_processes

\* C7, witness: the call returned 124 although SIGTERM could not be sent and
\* the child still runs.
C7_Witness ==
    /\ TimeoutReturned
    /\ platform = "Linux"
    /\ returned.frame.sent = << >>
    /\ os_procs[returned.frame.process].state = "running"
    /\ returned.value.returncode = RC_TIMEOUT

\* C7 as claimed: the result of such a call carries timedOut = true.
C7_TimedOutFlag ==
    TimeoutReturned
    => /\ "timedOut" \in returned.value.keys
       /\ returned.value.returncode = RC_TIMEOUT
       /\ returned.frame.process \notin DOMAIN running_processes

\* A call of _run_command returned in the last step after communicate had
\* returned: the child completed before the deadline.
CompletionReturned == ExecuteReturned /\ returned.frame.completed

\* How the child of a call can have ended: as its program ends, or killed.
EndingsOf(request) ==
    { request.child, Killed(RC_SIGTERM), Killed(RC_SIGKILL), Killed(RC_TASKKILL) }

SpawnFailure(request) ==
    IF request.working_directory = "file" THEN "other"
    ELSE IF request.executable = "missing" THEN "not_found"
    ELSE IF request.executable = "not_executable" THEN "permission_denied"
    ELSE IF request.executable = "os_error" THEN "other"
    ELSE "none"

\* The exit code the claims give each cause.
CodeOf(cause) ==
    IF cause = "not_found" THEN 127
    ELSE IF cause = "permission_denied" THEN 126
    ELSE 1

\* C9: when the spawn of an allowed command fails, execute returns (it does
\* not raise) a result dict whose returncode is 127 for executable-not-found,
\* 126 for permission-denied and 1 for any other failure, and the step adds
\* no handle to the table and creates no process.
C9_SpawnFailureCodes ==
    [][ \A t \in Threads :
            (/\ pc[t] = "execute"
             /\ pc'[t] # "execute"
             /\ ClassifiedAllow(frame[t].request)
             /\ SpawnFailure(frame[t].request) # "none")
            => /\ pc'[t] = "idle"
               /\ returned'.thread = t
               /\ returned'.value.kind = "dict"
               /\ returned'.value.keys = ResultKeys
               /\ returned'.value.returncode = CodeOf(SpawnFailure(frame[t].request))
               /\ returned'.frame.process = NoProc
               /\ running_processes' = running_processes
               /\ nspawned' = nspawned
               /\ os_procs' = os_procs
      ]_vars

\* C9, witness: a call for an allowed program that may not be executed
\* returned 126.
C9_Witness ==
    /\ ExecuteReturned
    /\ ClassifiedAllow(returned.frame.request)
    /\ returned.frame.request.executable = "not_executable"
    /\ returned.value.returncode = RC_NOT_EXECUTABLE
    /\ returned.value.error = Message("Permission denied: ", <<"l","s">>)

ErrorCondition ==
    LET request == returned.frame.request IN
    IF ~request.command.quoting_ok THEN "unparsable"
    ELSE IF request.command.words = << >> THEN "empty"
    ELSE IF ~ClassifiedAllow(request) THEN "denied"
    ELSE IF SpawnFailure(request) # "none" THEN SpawnFailure(request)
    ELSE IF returned.frame.caller = "run" THEN "timeout"
    ELSE IF ~returned.frame.completed THEN "read_error"
    ELSE "none"

\* C11: every call of execute returns a result dict with the keys output,
\* error and returncode and raises nothing; for an empty command, unparsable
\* quoting, a policy denial, a failed spawn (not found, permission denied,
\* other) and a timeout the error is a message that names the condition and
\* the returncode is not 0.
C11_StructuredResult ==
    ExecuteReturned
    => /\ returned.value.kind = "dict"
       /\ returned.value.keys = ResultKeys
       /\ ErrorCondition # "none"
          => /\ returned.value.returncode # 0
             /\ returned.value.output = << >>
             /\ returned.value.error.text =
                   CASE ErrorCondition = "unparsable" -> "Execution error: "
                     [] ErrorCondition = "empty" -> "Empty command"
                     [] ErrorCondition = "denied" -> "Command not allowed: "
                     [] ErrorCondition = "not_found" -> "Command not found: "
                     [] ErrorCondition = "permission_denied" -> "Permission denied: "
                     [] ErrorCondition = "timeout" ->
                            "Command timed out after {timeout} seconds"
                     [] OTHER -> "Execution failed: "

\* C11, witness: a command whose quoting shlex.split rejects came back as a
\* result dict with 'Execution error: ...' and returncode 1.
C11_Witness ==
    /\ ExecuteReturned
    /\ ~returned.frame.request.command.quoting_ok
    /\ returned.value.kind = "dict"
    /\ returned.value.error.text = "Execution error: "
    /\ returned.value.returncode = RC_FAILURE

\* What the policy check answered, as the caller of _is_command_allowed sees
\* it: the return value and the log event.
PolicyOutcome == Verdict(policy_out.ret, policy_out.log)

\* The name the policy check was asked about, classified as the claims put
\* it: the directory prefix stripped, then lowercased.
ClaimedBasename == Lower(Basename(policy_in))

\* C12 as amended: the policy check reached from execute answers for the
\* basename of the name, lowercased: False without a log event if it is in
\* the deny-set, else True if it is in the allow-set, else False without a
\* log event if it is a shell builtin, else False with the warning 'Unknown
\* command blocked'. The answer for a builtin is the answer for a deny-set
\* name: the caller cannot tell the two apart.
C12_PolicyClassification ==
    policy_out.asked
    => PolicyOutcome =
          IF ClaimedBasename \in blocked_commands THEN Verdict(FALSE, << >>)
          ELSE IF ClaimedBasename \in allowed_commands THEN Verdict(TRUE, << >>)
          ELSE IF ClaimedBasename \in shell_builtins THEN Verdict(FALSE, << >>)
          ELSE Verdict(FALSE, <<"Unknown command blocked">>)

\* C12, witness: the builtin cd, given as /u/Cd, was answered False without
\* a log event.
C12_Witness ==
    /\ policy_out.asked
    /\ policy_in = <<"/","u","/","C","d">>
    /\ PolicyOutcome = Verdict(FALSE, << >>)

\* C12 as claimed: the answer for a name that is a builtin (and in neither
\* the deny-set nor the allow-set) differs from the answer for a deny-set
\* name.
C12_BuiltinDeferDistinct ==
    (/\ policy_out.asked
     /\ ClaimedBasename \in shell_builtins
     /\ ClaimedBasename \notin blocked_commands \cup allowed_commands)
    => PolicyOutcome # Verdict(FALSE, << >>)

\* C13: the timeout of a call is the entry of the per-command table for the
\* basename of the program, lowercased, and the default when there is none;
\* a program given by full path gets the timeout of its bare name. (The
\* code does not keep it: it looks the whole lowercased name up.)
C13_TimeoutByBasename ==
    \A t \in Threads :
        (frame[t].op = "execute" /\ frame[t].process # NoProc)
        => frame[t].timeout = TimeoutFor(Lower(Basename(NameOf(frame[t].request))))

\* The working directory the claims give a request: the override when it
\* exists and is a directory, the executor's own current directory otherwise.
ClaimedCwd(working_directory) ==
    IF working_directory = "dir" THEN "dir" ELSE "getcwd"

\* C14: the working directory a child is spawned in is the request's
\* override if that path exists and is a directory, and the executor's own
\* current directory in every other case. (The code does not keep it: an
\* override that exists and is a regular file is used as it is.)
C14_CwdIsDirectoryOrOwn ==
    /\ \A t \in Threads :
          frame[t].cwd # "None"
          => frame[t].cwd = ClaimedCwd(frame[t].request.working_directory)
    /\ returned.frame.cwd # "None"
       => returned.frame.cwd = ClaimedCwd(returned.frame.request.working_directory)

\* What the claims make of a captured text: stripped, and cut to the cap
\* with the marker after it when it is longer than the cap.
Sanitized(text) ==
    IF Len(Strip(text)) > max_length
    THEN SubSeq(Strip(text), 1, max_length) \o TruncationMarker
    ELSE Strip(text)

\* C15 as amended: the sanitized output and error of a result are never
\* longer than the cap plus the length of the marker; a text longer than
\* the cap is cut to the cap and the marker is appended, so that it is the
\* cap and the marker long; the result has the keys output, error and
\* returncode and no truncated flag.
C15_CappedWithMarker ==
    CompletionReturned
    => /\ Len(returned.value.output) <= max_length + Len(TruncationMarker)
       /\ Len(returned.value.error.arg) <= max_length + Len(TruncationMarker)
       /\ returned.value.output = Sanitized(returned.frame.captured.stdout)
       /\ returned.value.error.arg = Sanitized(returned.frame.captured.stderr)
       /\ returned.value.keys = ResultKeys

\* C15, witness: the child wrote one character more than the cap; the
\* output of the result is the cap and the marker long.
C15_Witness ==
    /\ CompletionReturned
    /\ returned.frame.captured = WritesLong
    /\ Len(returned.value.output) = max_length + Len(TruncationMarker)
    /\ SubSeq(returned.value.output, max_length + 1, Len(returned.value.output))
          = TruncationMarker

\* C15 as claimed: the sanitized output is never longer than the cap, and
\* the result of a call whose output was cut carries a truncated flag.
C15_NeverExceedsCap ==
    CompletionReturned
    => /\ Len(returned.value.output) <= max_length
       /\ Len(Strip(returned.frame.captured.stdout)) > max_length
          => "truncated" \in returned.value.keys

\* text is what is left of whole when the whitespace at its two ends is
\* taken off: it lies in whole with only whitespace before and after it,
\* and neither begins nor ends with whitespace.
IsTrimOf(text, whole) ==
    /\ Len(text) <= Len(whole)
    /\ \E before \in 0..(Len(whole) - Len(text)) :
          /\ \A i \in 1..Len(text) : text[i] = whole[before + i]
          /\ \A i \in 1..before : whole[i] \in Whitespace
          /\ \A i \in (before + Len(text) + 1)..Len(whole) : whole[i] \in Whitespace
    /\ text # << >> => (text[1] \notin Whitespace /\ text[Len(text)] \notin Whitespace)

\* C16: _process_output takes the whitespace off the two ends of the text;
\* if what is left is longer than the cap, it returns exactly the first cap
\* characters of it followed by the marker, and otherwise what is left,
\* unchanged.
C16_TrimThenCut ==
    text_out.times >= 1
    => \E trimmed \in { Strip(text_in) } :
          /\ IsTrimOf(trimmed, text_in)
          /\ IF Len(trimmed) > max_length
             THEN /\ Len(text_out.once) = max_length + Len(TruncationMarker)
                  /\ \A i \in 1..max_length : text_out.once[i] = trimmed[i]
                  /\ \A i \in 1..Len(TruncationMarker) :
                        text_out.once[max_length + i] = TruncationMarker[i]
             ELSE text_out.once = trimmed

\* C16, witness: a text of the cap and 1000 characters, with whitespace
\* around it, became the cap and the marker long.
C16_Witness ==
    /\ text_out.times >= 1
    /\ Len(text_in) = max_length + 1000 + 4
    /\ text_in[1] \in Whitespace
    /\ Len(text_out.once) = max_length + Len(TruncationMarker)
    /\ text_out.once[max_length] = "x"

\* C17: _process_output applied to a text it has returned returns that text:
\* the sanitizer is idempotent, also on texts that it has cut.
C17_Idempotent ==
    text_out.times = 2 => text_out.twice = text_out.once

\* C17, witness: a text that was cut and carries the marker came back
\* unchanged from the second application.
C17_Witness ==
    /\ text_out.times = 2
    /\ Len(Strip(text_in)) > max_length
    /\ Len(text_out.once) = max_length + Len(TruncationMarker)
    /\ text_out.twice = text_out.once

\* No call is in flight: every thread has returned from what it called.
AllReturned == \A t \in Threads : pc[t] \in {"idle", "absent"}

\* C18: of calls of _run_command that run side by side, each returns the
\* exit code and the output of its own child, and once all of them have
\* returned the table is empty. (The code does not keep the second: a call
\* that leaves through "except Exception" leaves its entry behind.)
C18_OwnResultAndEmptyTable ==
    /\ CompletionReturned
       => /\ returned.frame.captured \in EndingsOf(returned.frame.request)
          /\ returned.value.returncode = returned.frame.captured.returncode
          /\ returned.value.output = Strip(returned.frame.captured.stdout)
    /\ AllReturned => DOMAIN running_processes = {}

\* terminate_all_processes returned in the last step.
TerminateAllReturned ==
    returned.thread # NoThread /\ returned.frame.op = "terminate_all_processes"

\* C19: when terminate_all_processes has returned, the table is empty and no
\* child of a call that was in flight is still running. (The code does not
\* keep the second: a child that was started and not yet registered is not
\* signalled, and a child that could not be signalled is forgotten.)
C19_TerminateAllLeavesNoChild ==
    TerminateAllReturned
    => /\ DOMAIN running_processes = {}
       /\ \A p \in Procs : os_procs[p].state # "running"

\* C20: when the application has exited, by whichever path, no child that
\* the executor started is still running: terminate_all_processes ran to
\* completion before the exit. (The code does not keep it: main never calls
\* terminate_all_processes.)
C20_NoChildSurvivesExit ==
    main_pc.at = "exited"
    => \A p \in Procs : os_procs[p].state # "running"

\* The elements of a sequence.
Range(seq) == { seq[i] : i \in DOMAIN seq }

\* C21: while terminate_all_processes runs, the table is what it was when
\* the snapshot was taken; when it returns, the loop body was run for every
\* entry of the snapshot, once each, also after the kill of an earlier entry
\* had failed, and the table is empty.
C21_TerminateAllCoversSnapshot ==
    /\ \A t \in Threads :
          frame[t].op = "terminate_all_processes"
          => /\ DOMAIN running_processes = frame[t].snapshot
             /\ Range(frame[t].attempted) \cup frame[t].todo = frame[t].snapshot
    /\ TerminateAllReturned
       => /\ Range(returned.frame.attempted) = returned.frame.snapshot
          /\ Len(returned.frame.attempted) = Cardinality(returned.frame.snapshot)
          /\ DOMAIN running_processes = {}

\* C21, witness: of two entries the first was of a child already reaped,
\* so that its kill failed (ProcessLookupError); the loop went on to the
\* second, whose child ended on SIGTERM.
C21_Witness ==
    /\ TerminateAllReturned
    /\ platform = "Linux"
    /\ returned.frame.attempted = <<1, 2>>
    /\ os_procs[1].state = "reaped"
    /\ os_procs[2].state = "zombie"
    /\ os_procs[2].ending = Killed(RC_SIGTERM)
    /\ DOMAIN running_processes = {}

\* terminate_process returned in the last step.
TerminateProcessReturned ==
    returned.thread # NoThread /\ returned.frame.op = "terminate_process"

\* C22: terminate_process returns True or False and raises nothing, and the
\* id it was called for is out of the table when it returns; a call for an
\* id that is not in the table returns False at once, has sent no signal,
\* and leaves the table and the children as they are. A second call in a
\* row is such a call, so two calls leave the state one call leaves.
C22_TerminateProcessIdempotent ==
    /\ [](TerminateProcessReturned
            => /\ returned.value.kind \in {"True", "False"}
               /\ returned.frame.target \notin DOMAIN running_processes)
    /\ [][ (/\ returned'.thread # NoThread
            /\ returned'.frame.op = "terminate_process"
            /\ returned'.frame.target \notin DOMAIN running_processes)
           => /\ returned'.value.kind = "False"
              /\ returned'.frame.sent = << >>
              /\ pc[returned'.thread] = "idle"
              /\ running_processes' = running_processes
              /\ os_procs' = os_procs
              /\ process_lock' = process_lock
       ]_vars

\* C22, witness: terminate_process was called for the id of a child that
\* had been killed and taken out of the table before; it returned False.
C22_Witness ==
    /\ TerminateProcessReturned
    /\ returned.value.kind = "False"
    /\ returned.frame.target = 1
    /\ os_procs[1].state = "zombie"
    /\ os_procs[1].ending = Killed(RC_SIGTERM)
    /\ 1 \notin DOMAIN running_processes

\* C23: the pop at the end of _run_command, on the completion path and on
\* the timeout path, takes the id of the call out of the table and leaves
\* every other entry as it is; when the id is not there any more (a
\* termination took it out while the call waited), it raises nothing, the
\* table stays as it is and the call returns the result it would have
\* returned.
C23_PopOfAbsentIdIsHarmless ==
    [][ \A t \in Threads :
            (pc[t] \in {"unregister", "timeout_pop"} /\ pc'[t] # pc[t])
            => /\ DOMAIN running_processes' =
                     (DOMAIN running_processes) \ {frame[t].process}
               /\ \A id \in DOMAIN running_processes' :
                     running_processes'[id] = running_processes[id]
               /\ returned'.thread = t
               /\ returned'.value.kind = "dict"
               /\ returned'.value.error.text # "Execution failed: "
               /\ returned'.value.returncode =
                     IF pc[t] = "timeout_pop" THEN RC_TIMEOUT
                     ELSE frame[t].captured.returncode
      ]_vars

\* C23, witness: the child of a call was killed and its id taken out by a
\* termination while the call waited; the call's own pop found nothing and
\* the call returned the child's return code.
C23_Witness ==
    /\ CompletionReturned
    /\ returned.frame.popped = "None"
    /\ returned.frame.captured = Killed(RC_SIGTERM)
    /\ returned.value.returncode = RC_SIGTERM

\* About C24: a call that is about to register its handle never finds its
\* id in the table. The id is id(process), and an entry of the table keeps
\* its Popen object alive, so no new Popen object has the id of an entry:
\* the case of C24, a registration under an id that is already there, does
\* not arise, and the assignment that registers has no test for it.
RegisterMeetsFreshId ==
    \A t \in Threads :
        pc[t] = "register" => frame[t].process \notin DOMAIN running_processes

\* Thread t is inside a section of more than one step that holds the lock:
\* the body of terminate_all_processes or of terminate_process.
InCriticalSection(t) ==
    \/ pc[t] = "terminate_all_loop"
    \/ pc[t] \in {"kill", "kill_sleep"} /\ frame[t].caller \in {"all", "one"}

\* The step is one in which thread t reads or writes the table: it
\* registers, pops, takes the snapshot, looks an id up, lists, or clears.
AccessesTable(t) ==
    \/ pc[t] \in {"register", "unregister", "timeout_pop", "terminate_all_loop"}
          /\ (pc'[t] # pc[t] \/ frame'[t] # frame[t])
    \/ pc[t] = "idle" /\ pc'[t] \in {"terminate_all_loop", "kill"}
    \/ pc[t] = "idle" /\ returned'.thread = t
          /\ returned'.frame.op \in {"terminate_process", "get_running_processes"}
    \/ InCriticalSection(t) /\ pc'[t] = "idle"

\* C25: a thread reads or writes the table only in a step in which it holds
\* the lock: the lock is free before a section of one step, and is the
\* thread's own in a section of several steps, which it holds from its first
\* step to its last. The lock has one holder, so no two threads are inside a
\* section at the same time.
C25_TableAccessUnderLock ==
    /\ [](\A t \in Threads : InCriticalSection(t) <=> process_lock = t)
    /\ [][ \A t \in Threads :
              AccessesTable(t) => process_lock \in {NoThread, t} ]_vars
    /\ [][ running_processes' # running_processes
             => \E t \in Threads : AccessesTable(t) ]_vars

\* C25, witness: one thread is in the sleep of a kill of
\* terminate_all_processes and holds the lock; the other has its child's
\* output and waits for the lock to pop its handle.
C25_Witness ==
    /\ pc[1] = "kill_sleep"
    /\ frame[1].caller = "all"
    /\ process_lock = 1
    /\ pc[2] = "unregister"
    /\ frame[2].process \in DOMAIN running_processes

\* The frames of the calls in flight and of the call that returned last.
Frames == { frame[t] : t \in Threads } \cup { returned.frame }

BudgetUsed(t) ==
    /\ pc[t] = "timeout_pop"
    /\ frame[t].sent # << >>
    /\ frame[t].sent[1] = "SIGTERM"

\* C27: a call of _run_command blocks its thread for at most its timeout
\* and one grace interval: once it has used both, it does not wait through a
\* grace sleep of another thread, so no thread that holds the lock begins
\* its sleep while the call waits for the lock. (The code does not keep it:
\* terminate_all_processes and terminate_process sleep with the lock held.)
C27_NoWaitBeyondTimeoutAndGrace ==
    [][ \A t \in Threads : \A holder \in Threads \ {t} :
            ~(/\ BudgetUsed(t)
              /\ process_lock = holder
              /\ pc[holder] = "kill"
              /\ pc'[holder] = "kill_sleep")
      ]_vars

\* C28: a result with the returncode 124 is returned only by a call whose
\* deadline expired, and a result with 127 or 126 only by a call whose
\* spawn failed for that cause. (The code does not keep it: the return code
\* of a child that completes is passed on as it is, 124 included.)
C28_SentinelOnlyForItsClass ==
    ExecuteReturned
    => /\ returned.value.returncode = RC_TIMEOUT => TimeoutReturned
       /\ returned.value.returncode = RC_NOT_FOUND
          => /\ ClassifiedAllow(returned.frame.request)
             /\ SpawnFailure(returned.frame.request) = "not_found"
       /\ returned.value.returncode = RC_NOT_EXECUTABLE
          => /\ ClassifiedAllow(returned.frame.request)
             /\ SpawnFailure(returned.frame.request) = "permission_denied"

\* C29: no signal of _kill_process_group is sent with the pid of a child
\* that the wait of its call has reaped, so none reaches the group of a
\* process that was given that pid. (The code does not keep it: lines 163
\* and 171 look the group up by process.pid without regard to the reaping,
\* which communicate does outside the lock.)
C29_NoSignalWithReapedPid ==
    \A f \in Frames : "group of a stranger" \notin f.aimed

\* C30: terminate_process(id) returns True exactly when id was in the table
\* at its lookup, and id is out of the table when it returns. From the
\* lookup that found the entry to the return the call holds the lock and the
\* entry stays; a kill that failed ("Error killing process" is logged)
\* returns True and takes the entry out like one that worked.
C30_TrueExactlyWhenRegistered ==
    /\ [](\A t \in Threads :
            (pc[t] \in {"kill", "kill_sleep"} /\ frame[t].caller = "one")
            => /\ RegistryHas(frame[t].target)
               /\ process_lock = t)
    /\ [][ (returned'.thread # NoThread /\ returned'.frame.op = "terminate_process")
           => /\ returned'.value.kind
                    = IF RegistryHas(returned'.frame.target) THEN "True" ELSE "False"
              /\ returned'.value.kind = "True"
                    <=> pc[returned'.thread] \in {"kill", "kill_sleep"}
              /\ returned'.value.kind = "False" <=> pc[returned'.thread] = "idle"
              /\ returned'.frame.target \notin DOMAIN running_processes'
              /\ emitted' = <<"Error killing process">>
                    => returned'.value.kind = "True"
       ]_vars

\* C30, witness: the kill of terminate_process failed and was logged; the
\* call returned True and its entry is out of the table, the child running.
C30_Witness ==
    /\ TerminateProcessReturned
    /\ returned.value.kind = "True"
    /\ emitted = <<"Error killing process">>
    /\ returned.frame.sent = << >>
    /\ returned.frame.target \notin DOMAIN running_processes
    /\ os_procs[returned.frame.target].state = "running"
====
